---- MODULE Spec2Model ----
(***************************************************************************)
(* rust-tagfs: the tag index built by TagFS::new and the FilesystemMT      *)
(* handlers of src/tagfs.rs that answer requests from it.                  *)
(*                                                                         *)
(* Strings (OsString, PathBuf) are sequences of one-character strings.     *)
(* Extended-attribute names and values are sequences of bytes (ASCII       *)
(* codes), as the handlers take them with as_bytes().                      *)
(* A HashSet / HashMap is a set; a loop over one takes its elements in an  *)
(* order the code does not fix, so the handler that iterates draws it.     *)
(***************************************************************************)
EXTENDS Integers, Sequences, FiniteSets, TLC

-----------------------------------------------------------------------------
(* Bounds of the model *)

\* real directories nest at most this deep below the scan root
MaxDepth == 2
\* the scanned tree holds at most this many regular files
MaxFiles == 2
\* a synthetic path has at most this many components after the root
MaxPathLen == 2
\* workers of the FUSE dispatch pool in the multi-threaded specification
NumThreads == 2

-----------------------------------------------------------------------------
(* Strings *)

Range(s) == {s[i] : i \in 1..Len(s)}

SeqsUpTo(S, n) == UNION {[1..k -> S] : k \in 0..n}

\* all sequences that enumerate the finite set S without repetition
Orders(S) == {s \in [1..Cardinality(S) -> S] : \A i, j \in 1..Cardinality(S) : s[i] = s[j] => i = j}

RECURSIVE Flatten(_)
Flatten(ss) == IF ss = <<>> THEN <<>> ELSE Head(ss) \o Flatten(Tail(ss))

Slash == <<"/">>

\* directory names that occur in the scanned trees
DirNames == {<<"a">>, <<"a", ":", "a">>}
\* base names of the scanned files
FileNames == {<<"n">>}
\* a component no scanned directory has
UnknownTag == <<"z">>

\* the scan root given to TagFS::new, and the working directory of the process
RootArg == <<"r">>
Cwd == <<"/">>

-----------------------------------------------------------------------------
(* The index *)

VARIABLES
    tree,       \* the real directory tree at mount: its regular files
    root,       \* TagFS.root
    tags,       \* TagFS.tags
    entries,    \* TagFS.entries
    attrs,      \* TagFS.attrs
    built,      \* the TagFS value as TagFS::new returned it
    pc,         \* per worker: where it is in a handler
    call,       \* per worker: the request it serves or served last
    cur_tags,   \* per worker: readdir's local cur_tags
    acc,        \* per worker: readdir's local entries
    ret         \* per worker: the result of its last finished request

vars == <<tree, root, tags, entries, attrs, built, pc, call, cur_tags, acc, ret>>

index == [root |-> root, tags |-> tags, entries |-> entries, attrs |-> attrs]

\* a regular file of the tree: the directories from the scan root down to it
RealFiles == [dir : SeqsUpTo(DirNames, MaxDepth), name : FileNames]

Trees == {t \in SUBSET RealFiles : Cardinality(t) <= MaxFiles}

\* root / dir[1] / ... / dir[n] / name, as WalkDir yields entry.path()
EntryPath(f) == RootArg \o Flatten([i \in 1..Len(f.dir) |-> Slash \o f.dir[i]]) \o Slash \o f.name

\* current_dir().join(path).canonicalize(), for a tree without symlinks
Canonicalize(p) == Cwd \o p

\* the size field, recorded at scan time, is read by no handler and left out
TagFSEntry_new(f) ==
    [name |-> f.name,
     absolute |-> Canonicalize(EntryPath(f)),
     tags |-> Range(f.dir)]

\* every order in which the walk may meet the files
scan(t) == {[i \in 1..Cardinality(t) |-> TagFSEntry_new(o[i])] : o \in Orders(t)}

AllTags(es) == UNION {es[i].tags : i \in 1..Len(es)}

\* user.tagfs.strategy
NameStrategy == <<117,115,101,114,46,116,97,103,102,115,46,115,116,114,97,116,101,103,121>>
\* user.tagfs.depth
NameDepth == <<117,115,101,114,46,116,97,103,102,115,46,100,101,112,116,104>>
\* "0" and "1"
Value0 == <<48>>
Value1 == <<49>>

AttrTable == {<<NameStrategy, Value0>>, <<NameDepth, Value1>>}

TagFS_new(t) ==
    {[root |-> RootArg, tags |-> AllTags(es), entries |-> es, attrs |-> AttrTable] :
        es \in scan(t)}

Threads == 1..NumThreads

NoCall == [op |-> "none"]
NoRet == [tag |-> "none"]

Init ==
    /\ tree \in Trees
    /\ \E fs \in TagFS_new(tree) :
        /\ root = fs.root
        /\ tags = fs.tags
        /\ entries = fs.entries
        /\ attrs = fs.attrs
        /\ built = fs
    /\ pc = [w \in Threads |-> "idle"]
    /\ call = [w \in Threads |-> NoCall]
    /\ cur_tags = [w \in Threads |-> {}]
    /\ acc = [w \in Threads |-> <<>>]
    /\ ret = [w \in Threads |-> NoRet]

-----------------------------------------------------------------------------
(* Results *)

Ok(v) == [tag |-> "Ok", val |-> v]
Err(e) == [tag |-> "Err", errno |-> e]
XattrSize(n) == [x |-> "Size", size |-> n]
XattrData(d) == [x |-> "Data", data |-> d]
DirectoryEntry(n, k) == [name |-> n, kind |-> k]

\* `as u32`: every length and count of the model is far below 2^32, where the
\* cast keeps the value
u32(n) == n

TTL == 1

-----------------------------------------------------------------------------
(* Attribute translation *)

mode_to_filetype(mode) ==
    \* mode & S_IFMT, S_IFMT = 0o170000
    LET fmt == ((mode \div 4096) % 16) * 4096 IN
    CASE fmt = 16384 -> "Directory"         \* S_IFDIR
      [] fmt = 32768 -> "RegularFile"       \* S_IFREG
      [] fmt = 40960 -> "Symlink"           \* S_IFLNK
      [] fmt = 24576 -> "BlockDevice"       \* S_IFBLK
      [] fmt = 8192 -> "CharDevice"         \* S_IFCHR
      [] fmt = 4096 -> "NamedPipe"          \* S_IFIFO
      [] fmt = 49152 -> "Socket"            \* S_IFSOCK
      [] OTHER -> "panic"

TagFSEntry_stat_to_fuse(st) ==
    [size |-> st.st_size,
     blocks |-> st.st_blocks,
     atime |-> <<st.st_atime, st.st_atime_nsec>>,
     mtime |-> <<st.st_mtime, st.st_mtime_nsec>>,
     ctime |-> <<st.st_ctime, st.st_ctime_nsec>>,
     crtime |-> <<0, 0>>,
     kind |-> mode_to_filetype(st.st_mode),
     perm |-> st.st_mode % 4096,            \* st_mode & 0o7777
     nlink |-> u32(st.st_nlink),
     uid |-> st.st_uid,
     gid |-> st.st_gid,
     rdev |-> u32(st.st_rdev),
     flags |-> 0]

\* lstat is the native call: `native` is what it answers for this entry
TagFSEntry_stat(native) ==
    IF native.tag = "Err" THEN native ELSE Ok(TagFSEntry_stat_to_fuse(native.val))

TagFS_stat_to_fuse ==
    [size |-> 0,
     blocks |-> 0,
     atime |-> <<0, 0>>,
     mtime |-> <<0, 0>>,
     ctime |-> <<0, 0>>,
     crtime |-> <<0, 0>>,
     kind |-> "Directory",
     perm |-> 493,                          \* 0o0755
     nlink |-> 1,
     uid |-> 0,
     gid |-> 0,
     rdev |-> 0,
     flags |-> 0]

-----------------------------------------------------------------------------
(* readdir *)

\* Component::Normal: every component of an absolute path but the root
IsNormal(c) == c # Slash

\* bug: only the first component after the root selects
PathTags_FirstOnly(path) == IF Len(path) >= 2 /\ IsNormal(path[2]) THEN {path[2]} ELSE {}

\* cur_tags: the Normal components, collected into a HashSet
PathTags(path) == {c \in Range(path) : IsNormal(c)}

\* {:?} of an OsString or a PathBuf: quoted, with quotes and backslashes escaped
RECURSIVE EscapeDebug(_)
EscapeDebug(s) ==
    IF s = <<>> THEN <<>>
    ELSE (IF Head(s) \in {"\"", "\\"} THEN <<"\\", Head(s)>> ELSE <<Head(s)>>)
         \o EscapeDebug(Tail(s))

Debug(s) == <<"\"">> \o EscapeDebug(s) \o <<"\"">>

\* str::replace(from, to) for one-character patterns
Replace(s, from, to) == [i \in 1..Len(s) |-> IF s[i] = from THEN to ELSE s[i]]

\* format!("{:?} {:?}", entry.name, entry.absolute).replace('/', ":")
EntryName(e) == Replace(Debug(e.name) \o <<" ">> \o Debug(e.absolute), "/", ":")

\* bug: the selected tags are listed again
TagEntries_Unfiltered(ts, cur) == [i \in 1..Len(ts) |-> DirectoryEntry(ts[i], "Directory")]

\* the first loop: one Directory entry per tag that is not in cur_tags
TagEntries(ts, cur) ==
    LET keep(t) == t \notin cur
        sel == SelectSeq(ts, keep)
    IN [i \in 1..Len(sel) |-> DirectoryEntry(sel[i], "Directory")]

\* bug: is_subset where is_superset is meant
FileEntries_Subset(es, cur) ==
    LET keep(e) == e.tags \subseteq cur
        sel == SelectSeq(es, keep)
    IN IF cur # {}
       THEN [i \in 1..Len(sel) |-> DirectoryEntry(EntryName(sel[i]), "RegularFile")]
       ELSE <<>>

\* the second loop: one RegularFile entry per entry whose tags hold cur_tags
FileEntries(es, cur) ==
    LET keep(e) == cur \subseteq e.tags
        sel == SelectSeq(es, keep)
    IN IF cur # {}
       THEN [i \in 1..Len(sel) |-> DirectoryEntry(EntryName(sel[i]), "RegularFile")]
       ELSE <<>>

-----------------------------------------------------------------------------
(* Extended attributes *)

RECURSIVE Join(_, _)
Join(ss, sep) ==
    IF ss = <<>> THEN <<>>
    ELSE IF Len(ss) = 1 THEN ss[1]
    ELSE ss[1] \o <<sep>> \o Join(Tail(ss), sep)

RECURSIVE SumLen(_)
SumLen(ss) == IF ss = <<>> THEN 0 ELSE Len(Head(ss)) + SumLen(Tail(ss))

\* HashMap::keys(), in the order `as` iterates
Keys(as) == [i \in 1..Len(as) |-> as[i][1]]

\* HashMap::get
Get(map, k) ==
    IF \E p \in map : p[1] = k
    THEN [some |-> TRUE, v |-> (CHOOSE p \in map : p[1] = k)[2]]
    ELSE [some |-> FALSE]

\* OsStr::to_str().unwrap_or(""): the name if it is valid UTF-8 (here: ASCII)
ToStrOrEmpty(name) == IF \A i \in 1..Len(name) : name[i] < 128 THEN name ELSE <<>>

ListxattrResult(as, size) ==
    IF size = 0
    THEN Ok(XattrSize(u32(SumLen(Keys(as)))))
    ELSE Ok(XattrData(Join(Keys(as), 0) \o <<0>>))

\* bug: the size probe is answered with the data
GetxattrResult_NoProbe(map, name, size) ==
    LET a == Get(map, ToStrOrEmpty(name)) IN
    Ok(XattrData(IF a.some THEN a.v ELSE <<>>))

GetxattrResult(map, name, size) ==
    LET a == Get(map, ToStrOrEmpty(name)) IN
    IF size = 0
    THEN Ok(XattrSize(u32(IF a.some THEN Len(a.v) ELSE 0)))
    ELSE Ok(XattrData(IF a.some THEN a.v ELSE <<>>))

-----------------------------------------------------------------------------
(* Requests *)

PathComps == DirNames \cup {UnknownTag}

\* absolute synthetic paths: the root component, then up to n names
DirPaths(n) == {<<Slash>> \o s : s \in SeqsUpTo(PathComps, n)}

\* a directory path followed by a name readdir lists for a file
LeafPaths(n) == {p \o <<EntryName(entries[i])>> : p \in DirPaths(n), i \in 1..Len(entries)}

\* a regular file, mode 0o100644, as lstat reports it
RegularStat ==
    [st_mode |-> 33188, st_size |-> 3, st_blocks |-> 8,
     st_atime |-> 5, st_atime_nsec |-> 0,
     st_mtime |-> 4, st_mtime_nsec |-> 7,
     st_ctime |-> 4, st_ctime_nsec |-> 7,
     st_nlink |-> 1, st_uid |-> 1000, st_gid |-> 1000, st_rdev |-> 0]

\* what lstat of a file's real path answers at the time of a request; a path
\* that names no indexed file has no real path to stat
Lstats == {Ok(RegularStat), Err("ENOENT")}

\* tagfs.strategy and tagfs.depth, without the user. namespace
ShortStrategy == <<116,97,103,102,115,46,115,116,114,97,116,101,103,121>>
ShortDepth == <<116,97,103,102,115,46,100,101,112,116,104>>
\* a name that is not valid UTF-8
NonUtf8Name == <<255>>

XattrNames == {NameStrategy, NameDepth, ShortStrategy, ShortDepth, NonUtf8Name, <<>>}
XattrSizes == {0, 64}
XattrValues == {<<>>, <<50>>}
XattrFlags == {0, 1}

\* the inputs of the single-threaded specification, and the narrower ones of
\* the multi-threaded one
ReaddirPaths(full) == IF full THEN DirPaths(MaxPathLen) ELSE DirPaths(1)
XattrPaths(full) == IF full THEN DirPaths(0) \cup LeafPaths(0) ELSE DirPaths(0)
Names(full) == IF full THEN XattrNames ELSE {NameStrategy, ShortStrategy}
Values(full) == IF full THEN XattrValues ELSE {<<50>>}
Flags(full) == IF full THEN XattrFlags ELSE {0}

-----------------------------------------------------------------------------
(* Handlers *)

Finish(w, c, r) ==
    /\ pc[w] = "idle"
    /\ pc' = [pc EXCEPT ![w] = "reply"]
    /\ call' = [call EXCEPT ![w] = c]
    /\ ret' = [ret EXCEPT ![w] = r]
    /\ UNCHANGED <<tree, root, tags, entries, attrs, built, cur_tags, acc>>

init(w) == Finish(w, [op |-> "init"], Ok(<<>>))

destroy(w) == Finish(w, [op |-> "destroy"], [tag |-> "Unit"])

\* the transport sends the reply; the request's data is dropped
reply(w) ==
    /\ pc[w] = "reply"
    /\ pc' = [pc EXCEPT ![w] = "idle"]
    /\ call' = [call EXCEPT ![w] = NoCall]
    /\ ret' = [ret EXCEPT ![w] = NoRet]
    /\ UNCHANGED <<tree, root, tags, entries, attrs, built, cur_tags, acc>>

\* native: the answer lstat would give for the file the path names
getattr(w, path, fh, native) ==
    Finish(w, [op |-> "getattr", path |-> path, fh |-> fh, native |-> native],
           Ok(<<TTL, TagFS_stat_to_fuse>>))

opendir(w, path, flags) ==
    Finish(w, [op |-> "opendir", path |-> path, flags |-> flags], Ok(<<0, 0>>))

\* bug: a looked-up component is remembered as a tag
readdir_begin_Registers(w, path, fh) ==
    /\ pc[w] = "idle"
    /\ pc' = [pc EXCEPT ![w] = "readdir_tags"]
    /\ call' = [call EXCEPT ![w] = [op |-> "readdir", path |-> path, fh |-> fh]]
    /\ ret' = [ret EXCEPT ![w] = NoRet]
    /\ cur_tags' = [cur_tags EXCEPT ![w] = PathTags(path)]
    /\ acc' = [acc EXCEPT ![w] = <<>>]
    /\ tags' = tags \cup PathTags(path)
    /\ UNCHANGED <<tree, root, entries, attrs, built>>

readdir_begin(w, path, fh) ==
    /\ pc[w] = "idle"
    /\ pc' = [pc EXCEPT ![w] = "readdir_tags"]
    /\ call' = [call EXCEPT ![w] = [op |-> "readdir", path |-> path, fh |-> fh]]
    /\ ret' = [ret EXCEPT ![w] = NoRet]
    /\ cur_tags' = [cur_tags EXCEPT ![w] = PathTags(path)]
    /\ acc' = [acc EXCEPT ![w] = <<>>]
    /\ UNCHANGED <<tree, root, tags, entries, attrs, built>>

readdir_tags(w) ==
    /\ pc[w] = "readdir_tags"
    /\ pc' = [pc EXCEPT ![w] = "readdir_files"]
    /\ \E ts \in Orders(tags) : acc' = [acc EXCEPT ![w] = acc[w] \o TagEntries(ts, cur_tags[w])]
    /\ UNCHANGED <<tree, root, tags, entries, attrs, built, call, cur_tags, ret>>

readdir_files(w) ==
    /\ pc[w] = "readdir_files"
    /\ pc' = [pc EXCEPT ![w] = "reply"]
    /\ ret' = [ret EXCEPT ![w] = Ok(acc[w] \o FileEntries(entries, cur_tags[w]))]
    /\ acc' = [acc EXCEPT ![w] = <<>>]
    /\ cur_tags' = [cur_tags EXCEPT ![w] = {}]
    /\ UNCHANGED <<tree, root, tags, entries, attrs, built, call>>

listxattr(w, path, size) ==
    \E as \in Orders(attrs) :
        Finish(w, [op |-> "listxattr", path |-> path, size |-> size],
               ListxattrResult(as, size))

getxattr(w, path, name, size) ==
    Finish(w, [op |-> "getxattr", path |-> path, name |-> name, size |-> size],
           GetxattrResult(attrs, name, size))

\* bug: the value is stored before the call is refused
setxattr_Stores(w, path, name, value, flags, position) ==
    /\ pc[w] = "idle"
    /\ pc' = [pc EXCEPT ![w] = "reply"]
    /\ call' = [call EXCEPT ![w] = [op |-> "setxattr", path |-> path, name |-> name,
                                    value |-> value, flags |-> flags, position |-> position]]
    /\ ret' = [ret EXCEPT ![w] = Err("ENODATA")]
    /\ attrs' = {p \in attrs : p[1] # name} \cup {<<name, value>>}
    /\ UNCHANGED <<tree, root, tags, entries, built, cur_tags, acc>>

setxattr(w, path, name, value, flags, position) ==
    Finish(w, [op |-> "setxattr", path |-> path, name |-> name, value |-> value,
               flags |-> flags, position |-> position],
           Err("ENODATA"))

-----------------------------------------------------------------------------
(* Specifications *)

\* a worker takes a request when it is idle
Idle(w) == pc[w] = "idle"

Serve(w, full) ==
    \/ reply(w)
    \/ Idle(w) /\ init(w)
    \/ Idle(w) /\ destroy(w)
    \/ Idle(w) /\ \E path \in DirPaths(IF full THEN MaxPathLen ELSE 0) :
          getattr(w, path, "None", Err("ENOENT"))
    \/ Idle(w) /\ \E path \in LeafPaths(IF full THEN 1 ELSE 0), native \in Lstats :
          getattr(w, path, "None", native)
    \/ Idle(w) /\ \E path \in ReaddirPaths(full) : opendir(w, path, 0)
    \/ Idle(w) /\ \E path \in ReaddirPaths(full) : readdir_begin(w, path, 0)
    \/ readdir_tags(w)
    \/ readdir_files(w)
    \/ Idle(w) /\ \E path \in XattrPaths(full), size \in XattrSizes : listxattr(w, path, size)
    \/ Idle(w) /\ \E path \in XattrPaths(full), name \in Names(full), size \in XattrSizes :
          getxattr(w, path, name, size)
    \/ Idle(w) /\ \E path \in XattrPaths(full), name \in Names(full), value \in Values(full),
          flags \in Flags(full) :
          setxattr(w, path, name, value, flags, 0)

\* one worker, as the reference mount runs it
Next == Serve(1, TRUE)

Spec == Init /\ [][Next]_vars

\* a pool of workers serving requests concurrently, over a small tree
InitMT == Init /\ Cardinality(tree) <= 1

NextMT == \E w \in Threads : Serve(w, FALSE)

SpecMT == InitMT /\ [][NextMT]_vars

-----------------------------------------------------------------------------
(* Properties *)

\* worker w has finished a request of this kind and holds its result
Done(w, op) == pc[w] = "reply" /\ call[w].op = op

\* the tag filter of a synthetic path: the set of its components after the root
Filter(path) == {path[i] : i \in 2..Len(path)}

\* all_tags: the union of the tag sets of the scanned files
all_tags == UNION {Range(f.dir) : f \in tree}

Leaves(r) == {r[i].name : i \in {j \in 1..Len(r) : r[j].kind = "RegularFile"}}
SubDirs(r) == {r[i].name : i \in {j \in 1..Len(r) : r[j].kind = "Directory"}}

\* the files of the tree that lie directly under the scan root
Untagged == {f \in tree : f.dir = <<>>}

\* C1: readdir under filter F lists a leaf entry for an indexed file f if and
\* only if F is a subset of f.tags; at the root (F empty) every file is listed.
C1_SubsetVisibility ==
    \A w \in Threads : Done(w, "readdir") =>
        \A i \in 1..Len(entries) :
            (EntryName(entries[i]) \in Leaves(ret[w].val))
                <=> (Filter(call[w].path) \subseteq entries[i].tags)

\* C2: the result of readdir depends only on the set of components of the
\* path: every path with the same component set (a permutation, a repeated
\* tag) gives the same set of entries, names and kinds.
C2_OrderIndependence ==
    \A w \in Threads : Done(w, "readdir") =>
        \A q \in DirPaths(MaxPathLen) : Filter(q) = Filter(call[w].path) =>
            \A ts \in Orders(tags) :
                Range(ret[w].val)
                    = Range(TagEntries(ts, PathTags(q)) \o FileEntries(entries, PathTags(q)))

\* C2 witness: a listing of /a:a/a, a permutation of /a/a:a, that holds a file
C2_Witness ==
    /\ Done(1, "readdir")
    /\ call[1].path = <<Slash, <<"a", ":", "a">>, <<"a">>>>
    /\ Leaves(ret[1].val) # {}

\* C3: the sub-directory names of a listing under filter F are all_tags \ F,
\* all of all_tags at the root, and readdir succeeds also when F holds a
\* component that is no tag.
C3_TagExhaustiveness ==
    \A w \in Threads : Done(w, "readdir") =>
        /\ ret[w].tag = "Ok"
        /\ SubDirs(ret[w].val) = all_tags \ Filter(call[w].path)

\* C3 witness: a filter of one known and one unknown tag, with a tag left over
C3_Witness ==
    /\ Done(1, "readdir")
    /\ Filter(call[1].path) = {<<"a">>, UnknownTag}
    /\ SubDirs(ret[1].val) = {<<"a", ":", "a">>}

\* C4, as stated: a file directly under the scan root is a leaf entry of every
\* listing, under every filter, the root included.
C4_UntaggedEverywhere ==
    \A w \in Threads : Done(w, "readdir") =>
        \A f \in Untagged : EntryName(TagFSEntry_new(f)) \in Leaves(ret[w].val)

\* C4, amended: a file directly under the scan root is a leaf entry of no
\* listing under a non-empty filter (its empty tag set holds no filter but
\* the empty one).
C4_UntaggedNotUnderFilter ==
    \A w \in Threads : (Done(w, "readdir") /\ Filter(call[w].path) # {}) =>
        \A f \in Untagged : EntryName(TagFSEntry_new(f)) \notin Leaves(ret[w].val)

\* C4 witness: a listing under /a that holds a tagged file while the tree has
\* an untagged one
C4_Witness ==
    /\ Done(1, "readdir")
    /\ call[1].path = <<Slash, <<"a">>>>
    /\ Untagged # {}
    /\ Leaves(ret[1].val) # {}

\* a path of tags only is a synthetic directory
IsSyntheticDir(path) == Filter(path) \subseteq all_tags

\* the indexed files a path denotes: its last component is the name a listing
\* of its parent gives the file
LeafFiles(path) ==
    {i \in 1..Len(entries) :
        /\ Len(path) >= 2
        /\ path[Len(path)] = EntryName(entries[i])
        /\ {path[k] : k \in 2..(Len(path) - 1)} \subseteq entries[i].tags}

\* C5: getattr answers by what the path denotes: the directory stub (kind
\* directory, mode 0755, size 0, TTL 1 s) for a synthetic directory, the
\* translated native stat of the real file (or its OS error) for a leaf file,
\* and a not-found error for any other path.
C5_GetattrByDenotation ==
    \A w \in Threads : Done(w, "getattr") =>
        LET path == call[w].path
            native == TagFSEntry_stat(call[w].native)
        IN IF IsSyntheticDir(path)
           THEN /\ ret[w].tag = "Ok"
                /\ ret[w].val[1] = 1
                /\ ret[w].val[2].kind = "Directory"
                /\ ret[w].val[2].perm = 493
                /\ ret[w].val[2].size = 0
           ELSE IF LeafFiles(path) # {}
           THEN ret[w] = (IF native.tag = "Ok" THEN Ok(<<1, native.val>>) ELSE native)
           ELSE ret[w] = Err("ENOENT")

\* C6: listxattr with buffer_size zero returns the byte length of all names,
\* each with its terminator byte, which is the length of the name list it
\* returns for a non-zero buffer_size.
C6_ListxattrSize ==
    \A w \in Threads : (Done(w, "listxattr") /\ call[w].size = 0) =>
        /\ ret[w].val.size = SumLen(Keys(CHOOSE as \in Orders(attrs) : TRUE))
                                + Cardinality(attrs)
        /\ \A as \in Orders(attrs) :
              ret[w].val.size = Len(ListxattrResult(as, 64).val.data)

\* what getxattr is to answer when `value` is the value of the named attribute
XattrAnswer(value, size) ==
    IF size = 0 THEN Ok(XattrSize(Len(value))) ELSE Ok(XattrData(value))

UserNamespace == <<117,115,101,114,46>>

C9_IndexImmutable ==
    /\ index = built
    /\ built \in TagFS_new(tree)
    /\ \A v, w \in Threads :
          (Done(v, "readdir") /\ Done(w, "readdir") /\ call[v].path = call[w].path) =>
              Range(ret[v].val) = Range(ret[w].val)

\* C9 witness: two workers hold a listing of /a each, over a tree with a file
\* tagged a
C9_Witness ==
    /\ Done(1, "readdir")
    /\ Done(2, "readdir")
    /\ call[1].path = <<Slash, <<"a">>>>
    /\ call[2].path = <<Slash, <<"a">>>>
    /\ Leaves(ret[1].val) # {}

\* C10: a listing is lossless: no two of its entries have the same name, so
\* its leaf entries correspond one to one to the qualifying files.
C10_DistinctNames ==
    \A w \in Threads : Done(w, "readdir") =>
        \A i, j \in 1..Len(ret[w].val) :
            i # j => ret[w].val[i].name # ret[w].val[j].name

====
